---------------------------- MODULE Spec2Model ----------------------------
(***************************************************************************)
(* A model of pyart's ODIM_H5 reader (pyart/aux_io/odim_h5.py) and of its  *)
(* Universal Format writer (pyart/io/write_uf.py).                         *)
(*                                                                         *)
(*   Spec           read_odim_h5, one step per block of the function       *)
(*   SpecSweepData  _get_odim_h5_sweep_data, one step per statement        *)
(*   SpecUF         write_uf, one step per write to the file               *)
(*                                                                         *)
(* Units.  Azimuths are kept in half degrees and times in half seconds, so *)
(* that the mean of two integer angles and the midpoint of two integer     *)
(* timestamps are integers.  Elevations are in tenths of a degree.         *)
(* Python's 0-based ray indices are kept: a ray array is a function on     *)
(* 0..n-1.  Sweeps are numbered from 1 (sweep i is datasets[i-1]).         *)
(***************************************************************************)
EXTENDS Integers, Sequences, FiniteSets, TLC

VARIABLES
    \* ---- read_odim_h5 ----
    hfile,            \* the container being read (fixed input)
    hfile_open,       \* whether the h5py.File handle is open
    pc,               \* position in read_odim_h5
    err,              \* the exception raised, "" when none
    err_at,           \* the block that raised it
    ds1_how,          \* attribute names of datasets[0]'s how group
    rays_per_sweep, total_rays, ssri, seri,
    fixed_angle, elevation, range_, azimuth, time_, fields,
    radar,            \* the returned Radar, NoRadar before the return
    \* ---- _get_odim_h5_sweep_data ----
    group,            \* the HDF5 data group handed to the function
    sd_pc, sd_run, sd_data, sd_out, sd_first,
    \* ---- write_uf ----
    uf_radar,         \* the Radar handed to write_uf
    uf_pc, uf_ray, uf_field_num, uf_file, uf_tell

readVars == <<hfile, hfile_open, pc, err, err_at, ds1_how, rays_per_sweep,
              total_rays, ssri, seri, fixed_angle, elevation, range_,
              azimuth, time_, fields, radar>>
sdVars   == <<group, sd_pc, sd_run, sd_data, sd_out, sd_first>>
ufVars   == <<uf_radar, uf_pc, uf_ray, uf_field_num, uf_file, uf_tell>>
vars     == <<readVars, sdVars, ufVars>>

-----------------------------------------------------------------------------
(* Bounds of the model.                                                    *)

MaxSweeps == 2      \* sweeps (dataset groups) of a container
MaxRays   == 5      \* rays of one sweep
MaxBins   == 2      \* gates of one ray
MaxSamples == 2     \* raw samples of a data group decoded on its own
UFMaxSweeps == 2    \* sweeps of a Radar written by write_uf
UFMaxRays == 2      \* rays of one sweep of a Radar written by write_uf
MaxFields == 3      \* fields of a Radar written by write_uf
MaxGates  == 2      \* gates of a Radar written by write_uf (besides 100 and 33000)

-----------------------------------------------------------------------------
(* Helpers on sequences and 0-based arrays.                                *)

RECURSIVE SumSeq(_)
SumSeq(s) == IF s = <<>> THEN 0 ELSE s[1] + SumSeq(Tail(s))

\* np.cumsum
cumsum(s) == [i \in 1..Len(s) |-> SumSeq(SubSeq(s, 1, i))]

Min(S) == CHOOSE x \in S : \A y \in S : x <= y

\* np.empty: no entry holds a value until it is assigned (an array is a
\* function on the indices assigned so far)
empty == <<>>

\* arr[start:stop+1] = vals, vals a sequence of stop-start+1 values
AssignSlice(arr, start, stop, vals) ==
    [r \in (DOMAIN arr) \cup (start..stop) |->
        IF start <= r /\ r <= stop THEN vals[r - start + 1] ELSE arr[r]]

\* for d, start, stop in zip(datasets, ssri, seri): arr[start:stop+1] = vals[d]
RECURSIVE FillSlices(_, _, _, _, _)
FillSlices(arr, starts, stops, vals, d) ==
    IF d > Len(vals) THEN arr
    ELSE FillSlices(AssignSlice(arr, starts[d], stops[d], vals[d]),
                    starts, stops, vals, d + 1)

\* np.repeat(vals, counts), as a 0-based array
RECURSIVE repeat_seq(_, _)
repeat_seq(vals, counts) ==
    IF vals = <<>> THEN <<>>
    ELSE [k \in 1..counts[1] |-> vals[1]] \o repeat_seq(Tail(vals), Tail(counts))
repeat(vals, counts) ==
    LET s == repeat_seq(vals, counts) IN [r \in 0..Len(s) - 1 |-> s[r + 1]]

\* np.fmod: the result has the sign of the dividend
fmod(x, m) == IF x >= 0 THEN x % m ELSE -((-x) % m)

-----------------------------------------------------------------------------
(* The containers read_odim_h5 is run on.                                  *)
(*                                                                         *)
(* A sweep (one datasetN group) is a record:                               *)
(*   nrays, elangle, a1gate, rstart, rscale   where attributes             *)
(*   how       the attribute names present in the sweep's how group        *)
(*             (an absent how group is the empty set: reading any          *)
(*             attribute of it raises the same KeyError)                   *)
(*   azbase    azimuth at which the first ray starts (per-ray samples)     *)
(*   tstart, tdelta   what/startdate+starttime and the sweep's duration,   *)
(*             both in seconds                                             *)
(*   groups    the dataN groups present in the sweep                       *)
(* A container is [object, sweeps, nbins, quantity], quantity giving the   *)
(* what/quantity of each data group of dataset1.                           *)
(* The per-ray sample arrays of a sweep follow from these values, so that  *)
(* every ray of every sweep carries samples of its own.                    *)
(*                                                                         *)
(* The volumes vary one part of the container at a time, each sweep on its *)
(* own, the rest keeping DefaultSweep's values.  Range geometry varies     *)
(* together with the elevation samples, because either can end the call.   *)
(* Every volume has at least one sweep and every required attribute        *)
(* (nrays, elangle, a1gate, rstart, rscale, nbins, start and end times).   *)

DataKeys == {"data1", "data2"}

DefaultSweep ==
    [nrays |-> 2, elangle |-> 5, a1gate |-> 0, rstart |-> 0, rscale |-> 250,
     how |-> {}, azbase |-> 359, tstart |-> 100, tdelta |-> 10,
     groups |-> {"data1"}]

DefaultQuantity == [k \in DataKeys |-> IF k = "data1" THEN "DBZH" ELSE "VRAD"]

SeqsOver(S) == UNION {[1..n -> S] : n \in 1..MaxSweeps}

Volume(obj, sweeps, nbins, quantity) ==
    [object |-> obj, sweeps |-> sweeps, nbins |-> nbins, quantity |-> quantity]

\* object kind and ray counts vary
StructureSweeps == {[DefaultSweep EXCEPT !.nrays = n] : n \in 1..MaxRays}
StructureVolumes ==
    {Volume(o, s, 1, DefaultQuantity) :
        o \in {"PVOL", "SCAN"}, s \in SeqsOver(StructureSweeps)}

\* per-ray elevation samples and range geometry vary
ElevationSweeps ==
    {[DefaultSweep EXCEPT !.how = h, !.elangle = e, !.rstart = r0, !.rscale = dr] :
        h \in SUBSET {"elangles"}, e \in {5, 10}, r0 \in {0, 1}, dr \in {250, 300}}
ElevationVolumes ==
    {Volume("PVOL", s, 1, DefaultQuantity) : s \in SeqsOver(ElevationSweeps)}

\* per-ray azimuth samples and a1gate vary
AzimuthSweeps ==
    {[DefaultSweep EXCEPT !.how = h, !.azbase = a, !.a1gate = g] :
        h \in SUBSET {"startazA", "stopazA"}, a \in {190, 359}, g \in {0, 359}}
AzimuthVolumes ==
    {Volume("PVOL", s, 1, DefaultQuantity) : s \in SeqsOver(AzimuthSweeps)}

\* per-ray time samples and sweep start times vary
TimeSweeps ==
    {[DefaultSweep EXCEPT !.how = h, !.tstart = t] :
        h \in SUBSET {"startazT", "stopazT"}, t \in {100, 103}}
TimeVolumes ==
    {Volume("PVOL", s, 1, DefaultQuantity) : s \in SeqsOver(TimeSweeps)}

\* ray counts and sweep durations vary (no per-ray time samples)
InterpSweeps ==
    {[DefaultSweep EXCEPT !.nrays = n, !.tdelta = d] :
        n \in 1..MaxRays, d \in {1, 10}}
InterpVolumes ==
    {Volume("PVOL", s, 1, DefaultQuantity) : s \in SeqsOver(InterpSweeps)}

\* data groups, quantities and gate counts vary
FieldSweeps == {[DefaultSweep EXCEPT !.groups = g] : g \in SUBSET DataKeys}
FieldVolumes ==
    {Volume("PVOL", s, nb, [DefaultQuantity EXCEPT !["data2"] = q]) :
        s \in SeqsOver(FieldSweeps), nb \in 1..MaxBins, q \in {"VRAD", "CLASS"}}

Volumes == StructureVolumes \cup ElevationVolumes \cup AzimuthVolumes
           \cup TimeVolumes \cup InterpVolumes \cup FieldVolumes

-----------------------------------------------------------------------------
(* Reading the container: what h5py returns for the paths the code reads.  *)

\* datasets: the sorted names of the groups that begin with "dataset"
datasets == 1..Len(hfile.sweeps)
nsweeps  == Len(hfile.sweeps)
where(d) == hfile.sweeps[d]

\* 'name' in hfile[d]['how'].attrs
how_has(d, name) == name \in hfile.sweeps[d].how

\* hfile[d]['how'].attrs['elangles'], in tenths of a degree
how_elangles(d) == [k \in 1..where(d).nrays |-> where(d).elangle + k]
\* hfile[d]['how'].attrs['startazA'], ['stopazA'], in degrees
how_startazA(d) == [k \in 1..where(d).nrays |-> (where(d).azbase + k - 1) % 360]
how_stopazA(d)  == [k \in 1..where(d).nrays |-> (where(d).azbase + k + 1) % 360]
\* hfile[d]['how'].attrs['startazT'], ['stopazT'], in seconds
how_startazT(d) == [k \in 1..where(d).nrays |-> where(d).tstart + k - 1]
how_stopazT(d)  == [k \in 1..where(d).nrays |-> where(d).tstart + k]

NoRadar == [built |-> FALSE]

-----------------------------------------------------------------------------
(* _get_odim_h5_sweep_data.  A data group is [what, data]: what.attrs the  *)
(* set of attribute names present in the group's what, what.nodata,        *)
(* what.undetect, what.gain, what.offset their values, data the raw        *)
(* samples (a function on any index set).  A masked array is [data, mask]. *)

\* np.ma.masked_equal(raw_data, nodata) / np.ma.masked_array(raw_data)
MaskNodata(grp) ==
    IF "nodata" \in grp.what.attrs
    THEN [data |-> grp.data,
          mask |-> [x \in DOMAIN grp.data |-> grp.data[x] = grp.what.nodata]]
    ELSE [data |-> grp.data, mask |-> [x \in DOMAIN grp.data |-> FALSE]]

\* The statement at line 301 left out.
MaskUndetectSkipped(grp, ma) == ma

\* data[data == undetect] = np.ma.masked
MaskUndetect(grp, ma) ==
    IF "undetect" \in grp.what.attrs
    THEN [ma EXCEPT !.mask =
            [x \in DOMAIN ma.data |->
                ma.mask[x] \/ ma.data[x] = grp.what.undetect]]
    ELSE ma

\* data * gain + offset: masked entries keep their mask and their data
ScaleOffset(grp, ma) ==
    LET offset == IF "offset" \in grp.what.attrs THEN grp.what.offset ELSE 0
        gain   == IF "gain" \in grp.what.attrs THEN grp.what.gain ELSE 1
    IN  [ma EXCEPT !.data =
            [x \in DOMAIN ma.data |->
                IF ma.mask[x] THEN ma.data[x] ELSE ma.data[x] * gain + offset]]

get_odim_h5_sweep_data(grp) ==
    ScaleOffset(grp, MaskUndetect(grp, MaskNodata(grp)))

-----------------------------------------------------------------------------
(* The data groups of the containers.                                      *)

RawSamples == <<7, 0, 255, 12>>

\* hfile[d][key]['what'].attrs: data1 declares both sentinels, a gain and an
\* offset; data2 declares nothing
data_what(key) ==
    IF key = "data1"
    THEN [attrs |-> {"nodata", "undetect", "gain", "offset"},
          nodata |-> 255, undetect |-> 0, gain |-> 2, offset |-> -30]
    ELSE [attrs |-> {}, nodata |-> 0, undetect |-> 0, gain |-> 1, offset |-> 0]

\* hfile[d][key]['data'][:], nrays x nbins raw samples
data_raw(d, key) ==
    [x \in (0..where(d).nrays - 1) \X (0..hfile.nbins - 1) |->
        RawSamples[((d + x[1] + x[2] + (IF key = "data1" THEN 0 ELSE 1)) % 4) + 1]]

\* hfile[d][key], for a group the sweep has
data_group(d, key) == [what |-> data_what(key), data |-> data_raw(d, key)]

-----------------------------------------------------------------------------
(* read_odim_h5: the computations of its blocks.                           *)

ODIM_H5_FIELD_NAMES ==
    [q \in {"TH", "TV", "DBZH", "DBZV", "ZDR", "RHOHV", "LDR", "PHIDP", "KDP",
            "SQI", "SNR", "VRAD", "WRAD", "QIND"} |->
        CASE q \in {"TH", "TV"}     -> "total_power"
          [] q \in {"DBZH", "DBZV"} -> "reflectivity"
          [] q = "ZDR"   -> "differential_reflectivity"
          [] q = "RHOHV" -> "cross_correlation_ratio"
          [] q = "LDR"   -> "linear_polarization_ratio"
          [] q = "PHIDP" -> "differential_phase"
          [] q = "KDP"   -> "specific_differential_phase"
          [] q = "SQI"   -> "normalized_coherent_power"
          [] q = "SNR"   -> "signal_to_noise_ratio"
          [] q = "VRAD"  -> "velocity"
          [] q = "WRAD"  -> "spectrum_width"
          [] q = "QIND"  -> "quality_index"]

\* filemetadata.get_field_name: the mapped name, "None" for a quantity the
\* mapping does not hold
get_field_name(q) ==
    IF q \in DOMAIN ODIM_H5_FIELD_NAMES THEN ODIM_H5_FIELD_NAMES[q] ELSE "None"

\* rays_per_sweep = [hfile[d]['where'].attrs['nrays'] for d in datasets]
read_rays_per_sweep == [d \in datasets |-> where(d).nrays]

\* A cumulative sum that leaves out the leading 0.
sweep_start_no_zero(rays) == cumsum(rays)

\* ssri = np.cumsum(np.append([0], rays_per_sweep[:-1]))
sweep_start(rays) == cumsum(<<0>> \o SubSeq(rays, 1, Len(rays) - 1))

\* seri = np.cumsum(rays_per_sweep) - 1
sweep_end(rays) == [i \in 1..Len(rays) |-> cumsum(rays)[i] - 1]

\* sweep_el = [hfile[d]['where'].attrs['elangle'] for d in datasets]
sweep_el == [d \in datasets |-> where(d).elangle]

\* the elangles branch
elevation_samples ==
    FillSlices(empty, ssri, seri, [d \in datasets |-> how_elangles(d)], 1)

\* The range start check left out.
range_start_unchecked == FALSE

\* any(rstart != rstart[0])
range_start_changes == \E d \in datasets : where(d).rstart # where(1).rstart

\* any(rscale != rscale[0])
range_scale_changes == \E d \in datasets : where(d).rscale # where(1).rscale

\* np.arange(nbins) * rscale[0] + rstart[0] * 1000.
range_data ==
    [data |-> [b \in 0..hfile.nbins - 1 |-> b * where(1).rscale + where(1).rstart * 1000],
     meters_to_center_of_first_gate |-> where(1).rstart * 1000,
     meters_between_gates |-> where(1).rscale]

\* The direction of exp(i*start) + exp(i*stop) for start, stop in [0, 360)
\* degrees that are not opposite, in half degrees within [0, 720): the sum is
\* 2*cos((start-stop)/2) * exp(i*(start+stop)/2), which points along
\* (start+stop)/2 when the two are less than 180 degrees apart and the
\* opposite way when they are more.  Opposite angles sum to rounding noise
\* of no definite direction; no container of the model holds such a pair.
mean_direction(startaz, stopaz) ==
    IF startaz - stopaz < 180 /\ stopaz - startaz < 180
    THEN startaz + stopaz
    ELSE (startaz + stopaz + 360) % 720

\* np.angle(z, deg=True): the argument of z in (-180, 180], in half degrees
angle(dir) == IF dir > 360 THEN dir - 720 ELSE dir

\* sweep_az of the startazA/stopazA branch, in half degrees
sweep_az_mean(d) ==
    [k \in 1..where(d).nrays |->
        angle(mean_direction(how_startazA(d)[k], how_stopazA(d)[k]))]

\* sweep_az of the a1gate branch, in half degrees:
\* np.fmod(start_az + np.arange(nrays), 360.)
sweep_az_a1gate(d, nrays) ==
    [k \in 1..nrays |-> 2 * fmod(where(d).a1gate + (k - 1), 360)]

\* np.ones((total_rays, ))
ones(n) == [r \in 0..n - 1 |-> 1]

\* np.linspace(0, stop, num): the num values k*stop/(num-1), each a
\* fraction <<numerator, denominator>>
linspace(stop, num) ==
    [k \in 1..num |-> IF num = 1 THEN <<0, 1>> ELSE <<(k - 1) * stop, num - 1>>]

\* storing secs + q into an int32 array drops the fraction (the values are
\* non-negative); the result in half seconds
store_int32(secs, q) == 2 * (secs + q[1] \div q[2])

\* t_data of the startazT/stopazT branch, in half seconds:
\* (t_start + t_stop) / 2
t_data_mean ==
    FillSlices(empty, ssri, seri,
        [d \in datasets |->
            [k \in 1..where(d).nrays |-> how_startazT(d)[k] + how_stopazT(d)[k]]], 1)

\* t_data of the interpolation branch, in half seconds
t_data_interp ==
    FillSlices(empty, ssri, seri,
        [d \in datasets |->
            LET rays == seri[d] - ssri[d] + 1
                delta_seconds == where(d).tdelta
                sweep_start_epoch == where(d).tstart
            IN  [k \in 1..rays |->
                    store_int32(sweep_start_epoch, linspace(delta_seconds, rays)[k])]], 1)

\* start_epoch = t_data.min(); _time['data'] = t_data - start_epoch
time_of(t_data) ==
    LET start_epoch == Min({t_data[r] : r \in DOMAIN t_data})
    IN  [units |-> start_epoch,
         data  |-> [r \in DOMAIN t_data |-> t_data[r] - start_epoch]]

\* h_field_keys = [k for k in hfile['dataset1'] if k.startswith('data')]
h_field_keys == SelectSeq(<<"data1", "data2">>, LAMBDA k : k \in where(1).groups)
\* odim_fields
odim_field(key) == hfile.quantity[key]

\* np.ma.zeros((total_rays, nbins))
ma_zeros ==
    LET idx == (0..total_rays - 1) \X (0..hfile.nbins - 1)
    IN  [data |-> [x \in idx |-> 0], mask |-> [x \in idx |-> FALSE]]

\* for dset, rays_in_sweep in zip(datasets, rays_per_sweep):
\*     fdata[start:start + rays_in_sweep] = sweep_data[:]; start += rays_in_sweep
RECURSIVE field_loop(_, _, _, _)
field_loop(fdata, key, d, start) ==
    IF d > nsweeps THEN fdata
    ELSE LET sweep_data == get_odim_h5_sweep_data(data_group(d, key))
             rows == start..(start + rays_per_sweep[d] - 1)
             in_sweep(x) == x[1] \in rows
             src(x) == <<x[1] - start, x[2]>>
         IN  field_loop(
                [data |-> [x \in DOMAIN fdata.data |->
                              IF in_sweep(x) THEN sweep_data.data[src(x)]
                              ELSE fdata.data[x]],
                 mask |-> [x \in DOMAIN fdata.mask |->
                              IF in_sweep(x) THEN sweep_data.mask[src(x)]
                              ELSE fdata.mask[x]]],
                key, d + 1, start + rays_per_sweep[d])

\* the keys of h_field_keys whose quantity maps to a field name
mapped_keys == SelectSeq(h_field_keys, LAMBDA k : get_field_name(odim_field(k)) # "None")

\* A data group missing from a sweep goes unnoticed.
field_key_never_missing == FALSE

\* hfile[dset][h_field_key] raises KeyError
field_key_missing ==
    \E i \in 1..Len(mapped_keys) : \E d \in datasets : mapped_keys[i] \notin where(d).groups

\* fields[field_name] = field_dic, over the mapped keys in order
RECURSIVE fields_loop(_, _)
fields_loop(dict, i) ==
    IF i > Len(mapped_keys) THEN dict
    ELSE LET key == mapped_keys[i]
             field_name == get_field_name(odim_field(key))
             fdata == field_loop(ma_zeros, key, 1, 0)
         IN  fields_loop(
                [n \in (DOMAIN dict) \cup {field_name} |->
                    IF n = field_name THEN fdata ELSE dict[n]], i + 1)

-----------------------------------------------------------------------------
(* read_odim_h5: its steps.                                                *)

InitRead ==
    /\ hfile \in Volumes
    /\ hfile_open = FALSE
    /\ pc = "open"
    /\ err = ""
    /\ err_at = ""
    /\ ds1_how = {}
    /\ rays_per_sweep = <<>>
    /\ total_rays = 0
    /\ ssri = <<>>
    /\ seri = <<>>
    /\ fixed_angle = <<>>
    /\ elevation = <<>>
    /\ range_ = <<>>
    /\ azimuth = <<>>
    /\ time_ = <<>>
    /\ fields = <<>>
    /\ radar = NoRadar

IdleRead ==
    /\ hfile = Volume("PVOL", <<DefaultSweep>>, 1, DefaultQuantity)
    /\ hfile_open = FALSE
    /\ pc = "idle"
    /\ err = ""
    /\ err_at = ""
    /\ ds1_how = {}
    /\ rays_per_sweep = <<>>
    /\ total_rays = 0
    /\ ssri = <<>>
    /\ seri = <<>>
    /\ fixed_angle = <<>>
    /\ elevation = <<>>
    /\ range_ = <<>>
    /\ azimuth = <<>>
    /\ time_ = <<>>
    /\ fields = <<>>
    /\ radar = NoRadar

\* raise e: the call ends, nothing is returned
Raise(e) ==
    /\ pc' = "raised"
    /\ err' = e
    /\ err_at' = pc

\* hfile = h5py.File(filename, 'r'); the object is PVOL
OpenFile ==
    /\ pc = "open"
    /\ hfile_open' = TRUE
    /\ hfile.object = "PVOL"
    /\ pc' = "ds1_how"
    /\ UNCHANGED <<hfile, err, err_at, ds1_how, rays_per_sweep, total_rays, ssri,
                   seri, fixed_angle, elevation, range_, azimuth, time_, fields, radar>>
    /\ UNCHANGED <<sdVars, ufVars>>

\* hfile = h5py.File(filename, 'r'); raise NotImplementedError
OpenUnsupported ==
    /\ pc = "open"
    /\ hfile_open' = TRUE
    /\ hfile.object # "PVOL"
    /\ Raise("NotImplementedError")
    /\ UNCHANGED <<hfile, ds1_how, rays_per_sweep, total_rays, ssri,
                   seri, fixed_angle, elevation, range_, azimuth, time_, fields, radar>>
    /\ UNCHANGED <<sdVars, ufVars>>

\* ds1_how = hfile[datasets[0]]['how'].attrs, {} when there is no how group
ReadDs1How ==
    /\ pc = "ds1_how"
    /\ ds1_how' = hfile.sweeps[1].how
    /\ pc' = "sweep_index"
    /\ UNCHANGED <<hfile, hfile_open, err, err_at, rays_per_sweep, total_rays, ssri,
                   seri, fixed_angle, elevation, range_, azimuth, time_, fields, radar>>
    /\ UNCHANGED <<sdVars, ufVars>>

\* sweep_start_ray_index, sweep_end_ray_index
SweepIndex ==
    /\ pc = "sweep_index"
    /\ rays_per_sweep' = read_rays_per_sweep
    /\ total_rays' = SumSeq(read_rays_per_sweep)
    /\ ssri' = sweep_start(read_rays_per_sweep)
    /\ seri' = sweep_end(read_rays_per_sweep)
    /\ pc' = "fixed_angle"
    /\ UNCHANGED <<hfile, hfile_open, err, err_at, ds1_how,
                   fixed_angle, elevation, range_, azimuth, time_, fields, radar>>
    /\ UNCHANGED <<sdVars, ufVars>>

\* fixed_angle['data'] = np.array(sweep_el)
FixedAngle ==
    /\ pc = "fixed_angle"
    /\ fixed_angle' = sweep_el
    /\ pc' = "elevation"
    /\ UNCHANGED <<hfile, hfile_open, err, err_at, ds1_how, rays_per_sweep, total_rays,
                   ssri, seri, elevation, range_, azimuth, time_, fields, radar>>
    /\ UNCHANGED <<sdVars, ufVars>>

\* 'elangles' in ds1_how, and every sweep has the attribute
ElevationSamples ==
    /\ pc = "elevation"
    /\ "elangles" \in ds1_how
    /\ \A d \in datasets : how_has(d, "elangles")
    /\ elevation' = elevation_samples
    /\ pc' = "range"
    /\ UNCHANGED <<hfile, hfile_open, err, err_at, ds1_how, rays_per_sweep, total_rays,
                   ssri, seri, fixed_angle, range_, azimuth, time_, fields, radar>>
    /\ UNCHANGED <<sdVars, ufVars>>

\* 'elangles' in ds1_how, and hfile[d]['how'].attrs['elangles'] raises KeyError
ElevationKeyError ==
    /\ pc = "elevation"
    /\ "elangles" \in ds1_how
    /\ \E d \in datasets : ~how_has(d, "elangles")
    /\ Raise("KeyError")
    /\ UNCHANGED <<hfile, hfile_open, ds1_how, rays_per_sweep, total_rays,
                   ssri, seri, fixed_angle, elevation, range_, azimuth, time_, fields, radar>>
    /\ UNCHANGED <<sdVars, ufVars>>

\* else: elevation['data'] = np.repeat(sweep_el, rays_per_sweep)
ElevationRepeat ==
    /\ pc = "elevation"
    /\ "elangles" \notin ds1_how
    /\ elevation' = repeat(sweep_el, rays_per_sweep)
    /\ pc' = "range"
    /\ UNCHANGED <<hfile, hfile_open, err, err_at, ds1_how, rays_per_sweep, total_rays,
                   ssri, seri, fixed_angle, range_, azimuth, time_, fields, radar>>
    /\ UNCHANGED <<sdVars, ufVars>>

\* raise ValueError('range start changes between sweeps')
RangeStartError ==
    /\ pc = "range"
    /\ range_start_changes
    /\ Raise("ValueError: range start changes between sweeps")
    /\ UNCHANGED <<hfile, hfile_open, ds1_how, rays_per_sweep, total_rays,
                   ssri, seri, fixed_angle, elevation, range_, azimuth, time_, fields, radar>>
    /\ UNCHANGED <<sdVars, ufVars>>

\* raise ValueError('range scale changes between sweeps')
RangeScaleError ==
    /\ pc = "range"
    /\ ~range_start_changes
    /\ range_scale_changes
    /\ Raise("ValueError: range scale changes between sweeps")
    /\ UNCHANGED <<hfile, hfile_open, ds1_how, rays_per_sweep, total_rays,
                   ssri, seri, fixed_angle, elevation, range_, azimuth, time_, fields, radar>>
    /\ UNCHANGED <<sdVars, ufVars>>

\* both checks pass: _range is filled in
Range ==
    /\ pc = "range"
    /\ ~range_start_changes
    /\ ~range_scale_changes
    /\ range_' = range_data
    /\ pc' = "azimuth"
    /\ UNCHANGED <<hfile, hfile_open, err, err_at, ds1_how, rays_per_sweep, total_rays,
                   ssri, seri, fixed_angle, elevation, azimuth, time_, fields, radar>>
    /\ UNCHANGED <<sdVars, ufVars>>

\* ('startazA' in ds1_how) and ('stopazA' in ds1_how), every sweep has both
AzimuthMean ==
    /\ pc = "azimuth"
    /\ "startazA" \in ds1_how /\ "stopazA" \in ds1_how
    /\ \A d \in datasets : how_has(d, "startazA") /\ how_has(d, "stopazA")
    /\ azimuth' = FillSlices(ones(total_rays), ssri, seri,
                             [d \in datasets |-> sweep_az_mean(d)], 1)
    /\ pc' = "time"
    /\ UNCHANGED <<hfile, hfile_open, err, err_at, ds1_how, rays_per_sweep, total_rays,
                   ssri, seri, fixed_angle, elevation, range_, time_, fields, radar>>
    /\ UNCHANGED <<sdVars, ufVars>>

\* the same branch, and a sweep's how lacks startazA or stopazA: KeyError
AzimuthKeyError ==
    /\ pc = "azimuth"
    /\ "startazA" \in ds1_how /\ "stopazA" \in ds1_how
    /\ \E d \in datasets : ~(how_has(d, "startazA") /\ how_has(d, "stopazA"))
    /\ Raise("KeyError")
    /\ UNCHANGED <<hfile, hfile_open, ds1_how, rays_per_sweep, total_rays,
                   ssri, seri, fixed_angle, elevation, range_, azimuth, time_, fields, radar>>
    /\ UNCHANGED <<sdVars, ufVars>>

\* else: 1 degree per ray, starting at where/a1gate
AzimuthA1gate ==
    /\ pc = "azimuth"
    /\ ~("startazA" \in ds1_how /\ "stopazA" \in ds1_how)
    /\ azimuth' = FillSlices(ones(total_rays), ssri, seri,
                    [d \in datasets |-> sweep_az_a1gate(d, seri[d] - ssri[d] + 1)], 1)
    /\ pc' = "time"
    /\ UNCHANGED <<hfile, hfile_open, err, err_at, ds1_how, rays_per_sweep, total_rays,
                   ssri, seri, fixed_angle, elevation, range_, time_, fields, radar>>
    /\ UNCHANGED <<sdVars, ufVars>>

\* ('startazT' in ds1_how) and ('stopazT' in ds1_how), every sweep has both
TimeMean ==
    /\ pc = "time"
    /\ "startazT" \in ds1_how /\ "stopazT" \in ds1_how
    /\ \A d \in datasets : how_has(d, "startazT") /\ how_has(d, "stopazT")
    /\ time_' = time_of(t_data_mean)
    /\ pc' = "fields"
    /\ UNCHANGED <<hfile, hfile_open, err, err_at, ds1_how, rays_per_sweep, total_rays,
                   ssri, seri, fixed_angle, elevation, range_, azimuth, fields, radar>>
    /\ UNCHANGED <<sdVars, ufVars>>

\* the same branch, and a sweep's how lacks startazT or stopazT: KeyError
TimeKeyError ==
    /\ pc = "time"
    /\ "startazT" \in ds1_how /\ "stopazT" \in ds1_how
    /\ \E d \in datasets : ~(how_has(d, "startazT") /\ how_has(d, "stopazT"))
    /\ Raise("KeyError")
    /\ UNCHANGED <<hfile, hfile_open, ds1_how, rays_per_sweep, total_rays,
                   ssri, seri, fixed_angle, elevation, range_, azimuth, time_, fields, radar>>
    /\ UNCHANGED <<sdVars, ufVars>>

\* else: interpolate between each sweep's starting and ending time
TimeInterpolate ==
    /\ pc = "time"
    /\ ~("startazT" \in ds1_how /\ "stopazT" \in ds1_how)
    /\ time_' = time_of(t_data_interp)
    /\ pc' = "fields"
    /\ UNCHANGED <<hfile, hfile_open, err, err_at, ds1_how, rays_per_sweep, total_rays,
                   ssri, seri, fixed_angle, elevation, range_, azimuth, fields, radar>>
    /\ UNCHANGED <<sdVars, ufVars>>

\* the fields loop runs to its end
Fields ==
    /\ pc = "fields"
    /\ ~field_key_missing
    /\ fields' = fields_loop(<<>>, 1)
    /\ pc' = "return"
    /\ UNCHANGED <<hfile, hfile_open, err, err_at, ds1_how, rays_per_sweep, total_rays,
                   ssri, seri, fixed_angle, elevation, range_, azimuth, time_, radar>>
    /\ UNCHANGED <<sdVars, ufVars>>

\* hfile[dset][h_field_key] raises KeyError
FieldsKeyError ==
    /\ pc = "fields"
    /\ field_key_missing
    /\ Raise("KeyError")
    /\ UNCHANGED <<hfile, hfile_open, ds1_how, rays_per_sweep, total_rays,
                   ssri, seri, fixed_angle, elevation, range_, azimuth, time_, fields, radar>>
    /\ UNCHANGED <<sdVars, ufVars>>

\* return Radar(...)
Return ==
    /\ pc = "return"
    /\ radar' = [built |-> TRUE, time |-> time_, range |-> range_, fields |-> fields,
                 fixed_angle |-> fixed_angle,
                 sweep_start_ray_index |-> ssri, sweep_end_ray_index |-> seri,
                 azimuth |-> azimuth, elevation |-> elevation,
                 nrays |-> total_rays, nsweeps |-> nsweeps, ngates |-> hfile.nbins]
    /\ pc' = "returned"
    /\ UNCHANGED <<hfile, hfile_open, err, err_at, ds1_how, rays_per_sweep, total_rays,
                   ssri, seri, fixed_angle, elevation, range_, azimuth, time_, fields>>
    /\ UNCHANGED <<sdVars, ufVars>>

NextRead ==
    \/ OpenFile \/ OpenUnsupported \/ ReadDs1How \/ SweepIndex \/ FixedAngle
    \/ ElevationSamples \/ ElevationKeyError \/ ElevationRepeat
    \/ RangeStartError \/ RangeScaleError \/ Range
    \/ AzimuthMean \/ AzimuthKeyError \/ AzimuthA1gate
    \/ TimeMean \/ TimeKeyError \/ TimeInterpolate
    \/ Fields \/ FieldsKeyError \/ Return

\* the call has ended
Ended == pc \in {"returned", "raised"}

-----------------------------------------------------------------------------
(* _get_odim_h5_sweep_data on its own: the function is called twice on the *)
(* same data group, one step per statement.                                *)

SampleValues == {0, 7, 255}

Groups ==
    {[what |-> [attrs |-> a, nodata |-> 255, undetect |-> u, gain |-> g, offset |-> o],
      data |-> raw] :
        a \in SUBSET {"nodata", "undetect", "gain", "offset"},
        u \in {0, 255}, g \in {1, 2}, o \in {0, -30},
        raw \in UNION {[1..n -> SampleValues] : n \in 1..MaxSamples}}

NoArray == [data |-> <<>>, mask |-> <<>>]

InitSD ==
    /\ group \in Groups
    /\ sd_pc = "nodata"
    /\ sd_run = 1
    /\ sd_data = NoArray
    /\ sd_out = NoArray
    /\ sd_first = NoArray

IdleSD ==
    /\ group = [what |-> data_what("data2"), data |-> <<0>>]
    /\ sd_pc = "idle"
    /\ sd_run = 1
    /\ sd_data = NoArray
    /\ sd_out = NoArray
    /\ sd_first = NoArray

\* raw_data = group['data'][:]; the nodata test
SdMaskNodata ==
    /\ sd_pc = "nodata"
    /\ sd_data' = MaskNodata(group)
    /\ sd_pc' = "undetect"
    /\ UNCHANGED <<group, sd_run, sd_out, sd_first>>
    /\ UNCHANGED <<readVars, ufVars>>

\* the undetect test
SdMaskUndetect ==
    /\ sd_pc = "undetect"
    /\ sd_data' = MaskUndetect(group, sd_data)
    /\ sd_pc' = "scale"
    /\ UNCHANGED <<group, sd_run, sd_out, sd_first>>
    /\ UNCHANGED <<readVars, ufVars>>

\* return data * gain + offset
SdReturn ==
    /\ sd_pc = "scale"
    /\ sd_out' = ScaleOffset(group, sd_data)
    /\ sd_pc' = "done"
    /\ UNCHANGED <<group, sd_run, sd_data, sd_first>>
    /\ UNCHANGED <<readVars, ufVars>>

\* the caller keeps the result and decodes the same group again
SdCallAgain ==
    /\ sd_pc = "done"
    /\ sd_run = 1
    /\ sd_first' = sd_out
    /\ sd_run' = 2
    /\ sd_data' = NoArray
    /\ sd_out' = NoArray
    /\ sd_pc' = "nodata"
    /\ UNCHANGED group
    /\ UNCHANGED <<readVars, ufVars>>

NextSD == SdMaskNodata \/ SdMaskUndetect \/ SdReturn \/ SdCallAgain

-----------------------------------------------------------------------------
(* write_uf: the struct formats.                                           *)

UF_MANDATORY_HEADER2 ==
    << <<"ID", "2s">>, <<"RecordSize", "h">>, <<"OptionalHeaderPosition", "h">>,
       <<"LocalUseHeaderPosition", "h">>, <<"DataHeaderPosition", "h">>,
       <<"RecordNumber", "h">>, <<"VolumeNumber", "h">>, <<"RayNumber", "h">>,
       <<"RecordInRay", "h">>, <<"SweepNumber", "h">>, <<"RadarName", "8s">>,
       <<"SiteName", "8s">>, <<"LatDegrees", "h">>, <<"LatMinutes", "h">>,
       <<"LatSeconds", "h">>, <<"LonDegrees", "h">>, <<"LonMinutes", "h">>,
       <<"LonSeconds", "h">>, <<"Altitude", "h">>, <<"Year", "h">>, <<"Month", "h">>,
       <<"Day", "h">>, <<"Hour", "h">>, <<"Minute", "h">>, <<"Second", "h">>,
       <<"TimeZone", "2s">>, <<"Azimuth", "h">>, <<"Elevation", "h">>,
       <<"SweepMode", "h">>, <<"FixedAngle", "h">>, <<"SweepRate", "h">>,
       <<"ConvertYear", "h">>, <<"ConvertMonth", "h">>, <<"ConvertDay", "h">>,
       <<"ConvertName", "8s">>, <<"MissingDataValue", "h">> >>

uf_optional_header ==
    << <<"ProjectName", "8s">>, <<"BaselineAzimuth", "h">>,
       <<"BaselineElevation", "h">>, <<"VolumeScanHour", "h">>,
       <<"VolumeScanMinute", "h">>, <<"VolumeScanSecond", "h">>,
       <<"FieldTapeName", "8s">>, <<"iFlag", "h">> >>

uf_data_header2 ==
    << <<"FieldsThisRay", "h">>, <<"RecordsThisRay", "h">>,
       <<"FieldsThisRecord", "h">> >>

uf_field_header2 ==
    << <<"DataPosition", "h">>, <<"ScaleFactor", "h">>, <<"StartRangeKm", "h">>,
       <<"StartRangeMeters", "h">>, <<"BinSpacing", "h">>, <<"BinCount", "h">>,
       <<"PulseWidth", "h">>, <<"BeamWidthH", "h">>, <<"BeamWidthV", "h">>,
       <<"BandWidth", "h">>, <<"Polarization", "h">>, <<"Wavelength", "h">>,
       <<"SampleSize", "h">>, <<"ThresholdData", "2s">>, <<"ThresholdValue", "h">>,
       <<"Scale", "h">>, <<"EditCode", "2s">>, <<"PRT", "h">>, <<"BitsPerBin", "h">> >>

\* struct.calcsize of one format code, big-endian and unaligned
code_size(c) ==
    CASE c = "h"   -> 2
      [] c = "I"   -> 4
      [] c = "2s"  -> 2
      [] c = "8s"  -> 8
      [] c = "12s" -> 12

\* the bytes struct.pack writes for ''.join(rec_type[1] for rec_type in table)
RECURSIVE calcsize(_)
calcsize(table) ==
    IF table = <<>> THEN 0 ELSE code_size(table[1][2]) + calcsize(Tail(table))

\* struct.pack of format 'h' takes -32768..32767 and raises struct.error
\* for anything else
packs_as_h(v) == -32768 <= v /\ v <= 32767

-----------------------------------------------------------------------------
(* write_uf: the Radar objects written and the values computed from them.  *)

\* the spelling of the field names, for field[0:2]
FieldChars ==
    [n \in {"differential_reflectivity", "differential_phase", "reflectivity"} |->
        CASE n = "differential_reflectivity" ->
               <<"d","i","f","f","e","r","e","n","t","i","a","l","_",
                 "r","e","f","l","e","c","t","i","v","i","t","y">>
          [] n = "differential_phase" ->
               <<"d","i","f","f","e","r","e","n","t","i","a","l","_",
                 "p","h","a","s","e">>
          [] n = "reflectivity" ->
               <<"r","e","f","l","e","c","t","i","v","i","t","y">>]

FieldNames == DOMAIN FieldChars

\* radar.fields.keys(): the field names in the dictionary's order
FieldLists ==
    {f \in UNION {[1..n -> FieldNames] : n \in 1..MaxFields} :
        \A i, j \in DOMAIN f : i # j => f[i] # f[j]}

GateCounts == (1..MaxGates) \cup {100, 33000}

UFRadars ==
    {[nrays |-> SumSeq(rays), nsweeps |-> Len(rays), ngates |-> g, fields |-> f,
      sweep_start_ray_index |-> sweep_start(rays),
      sweep_end_ray_index |-> sweep_end(rays)] :
        rays \in UNION {[1..n -> 1..UFMaxRays] : n \in 1..UFMaxSweeps},
        g \in GateCounts, f \in FieldLists}

\* _get_ray_size
get_ray_size(r) == 52 + (27 + r.ngates) * Len(r.fields)

\* A first field header position that leaves out the directory.
fh_pos1_no_directory(r) == 62 + 1

\* fh_pos1 of _write_data_header
fh_pos1(r) == 62 + 2 * Len(r.fields) + 1

\* fhk of _write_data_header
fhk(r) == 25 + r.ngates

\* SweepNumber of _write_mandatory_header:
\* 1 + radar.nsweeps - sum(radar.sweep_end_ray_index['data'] > ray_num)
SweepNumber(r, ray_num) ==
    1 + r.nsweeps
      - Cardinality({i \in 1..r.nsweeps : r.sweep_end_ray_index[i] > ray_num})

\* offset handed to _write_field_header by write_uf
field_header_offset(r) ==
    50 + 27 * Len(r.fields) + r.ngates * (Len(r.fields) - 1)

\* field[0:2]
tag(field) == SubSeq(FieldChars[field], 1, 2)

\* uf_mhpd, the entries computed from the radar and the ray
uf_mhpd(r, ray_num) ==
    [RecordSize |-> get_ray_size(r),
     OptionalHeaderPosition |-> 46,
     LocalUseHeaderPosition |-> 60,
     DataHeaderPosition |-> 60,
     RecordNumber |-> 1, VolumeNumber |-> 1,
     RayNumber |-> ray_num + 1, RecordInRay |-> 1,
     SweepNumber |-> SweepNumber(r, ray_num)]

\* uf_dhd
uf_dhd(r) ==
    [FieldsThisRay |-> Len(r.fields), RecordsThisRay |-> 1,
     FieldsThisRecord |-> Len(r.fields)]

\* uf_fhd, the entries computed from the radar
uf_fhd(r, offset) ==
    [DataPosition |-> offset, BinCount |-> r.ngates, BitsPerBin |-> 16]

-----------------------------------------------------------------------------
(* write_uf: its steps.  The file is the sequence of the writes made to    *)
(* it; each write is [kind, ray, at, nbytes, vals]: at is file_id.tell()   *)
(* before the write, nbytes what struct.pack produced, vals the values     *)
(* packed that depend on the radar.                                        *)

Write(kind, at, nbytes, vals) ==
    [kind |-> kind, ray |-> uf_ray, at |-> at, nbytes |-> nbytes, vals |-> vals]

InitUF ==
    /\ uf_radar \in UFRadars
    /\ uf_pc = "record_size"
    /\ uf_ray = 0
    /\ uf_field_num = 0
    /\ uf_file = <<>>
    /\ uf_tell = 0

IdleUF ==
    /\ uf_radar = [nrays |-> 0, nsweeps |-> 0, ngates |-> 0, fields |-> <<>>,
                   sweep_start_ray_index |-> <<>>, sweep_end_ray_index |-> <<>>]
    /\ uf_pc = "idle"
    /\ uf_ray = 0
    /\ uf_field_num = 0
    /\ uf_file = <<>>
    /\ uf_tell = 0

\* file_id.write(struct.pack('>I', record_size)), before the headers
UfWriteRecordSize ==
    /\ uf_pc = "record_size"
    /\ uf_file' = Append(uf_file,
            Write("record_size", uf_tell, code_size("I"),
                  [value |-> 2 * get_ray_size(uf_radar)]))
    /\ uf_tell' = uf_tell + code_size("I")
    /\ uf_pc' = "mandatory_header"
    /\ UNCHANGED <<uf_radar, uf_ray, uf_field_num>>
    /\ UNCHANGED <<readVars, sdVars>>

\* _write_mandatory_header
UfWriteMandatoryHeader ==
    /\ uf_pc = "mandatory_header"
    /\ LET vals == uf_mhpd(uf_radar, uf_ray)
           n == calcsize(UF_MANDATORY_HEADER2)
       IN  /\ packs_as_h(vals.RecordSize)
           /\ uf_file' = Append(uf_file, Write("mandatory_header", uf_tell, n, vals))
           /\ uf_tell' = uf_tell + n
    /\ uf_pc' = "optional_header"
    /\ UNCHANGED <<uf_radar, uf_ray, uf_field_num>>
    /\ UNCHANGED <<readVars, sdVars>>

\* _write_mandatory_header: RecordSize does not fit format 'h', struct.pack
\* raises struct.error and the with block closes the file
UfMandatoryHeaderError ==
    /\ uf_pc = "mandatory_header"
    /\ ~packs_as_h(uf_mhpd(uf_radar, uf_ray).RecordSize)
    /\ uf_pc' = "raised"
    /\ UNCHANGED <<uf_radar, uf_ray, uf_field_num, uf_file, uf_tell>>
    /\ UNCHANGED <<readVars, sdVars>>

\* _write_optional_header
UfWriteOptionalHeader ==
    /\ uf_pc = "optional_header"
    /\ LET n == calcsize(uf_optional_header)
       IN  /\ uf_file' = Append(uf_file,
                  Write("optional_header", uf_tell, n, [iFlag |-> 7]))
           /\ uf_tell' = uf_tell + n
    /\ uf_pc' = "data_header"
    /\ UNCHANGED <<uf_radar, uf_ray, uf_field_num>>
    /\ UNCHANGED <<readVars, sdVars>>

\* _write_data_header: the header, then one '>2sh' entry per field
UfWriteDataHeader ==
    /\ uf_pc = "data_header"
    /\ LET n == calcsize(uf_data_header2)
           m == code_size("2s") + code_size("h")
           nfields == Len(uf_radar.fields)
           entries ==
               [i \in 1..nfields |->
                   Write("field_position", uf_tell + n + (i - 1) * m, m,
                         [idx |-> i - 1,
                          DataType |-> tag(uf_radar.fields[i]),
                          FieldHeaderPosition |->
                              fh_pos1(uf_radar) + fhk(uf_radar) * (i - 1)])]
       IN  /\ uf_file' = Append(uf_file,
                             Write("data_header", uf_tell, n, uf_dhd(uf_radar)))
                         \o entries
           /\ uf_tell' = uf_tell + n + nfields * m
    /\ uf_field_num' = 0
    /\ uf_pc' = "field_header"
    /\ UNCHANGED <<uf_radar, uf_ray>>
    /\ UNCHANGED <<readVars, sdVars>>

\* _write_field_header: the header, then the '>12s' filler
UfWriteFieldHeader ==
    /\ uf_pc = "field_header"
    /\ LET n == calcsize(uf_field_header2)
           field == uf_radar.fields[uf_field_num + 1]
           offset == field_header_offset(uf_radar)
       IN  /\ uf_file' = uf_file \o
                 << Write("field_header", uf_tell, n,
                          [field_num |-> uf_field_num, field |-> field]
                              @@ uf_fhd(uf_radar, offset)),
                    Write("field_header_filler", uf_tell + n, code_size("12s"),
                          [field_num |-> uf_field_num]) >>
           /\ uf_tell' = uf_tell + n + code_size("12s")
    /\ uf_pc' = "data"
    /\ UNCHANGED <<uf_radar, uf_ray, uf_field_num>>
    /\ UNCHANGED <<readVars, sdVars>>

\* _write_data: ngates samples of format 'h'; then the next field, or the
\* end of the record
UfWriteData ==
    /\ uf_pc = "data"
    /\ LET n == uf_radar.ngates * code_size("h")
           field == uf_radar.fields[uf_field_num + 1]
       IN  /\ uf_file' = Append(uf_file,
                  Write("data", uf_tell, n,
                        [field_num |-> uf_field_num, field |-> field]))
           /\ uf_tell' = uf_tell + n
    /\ IF uf_field_num + 1 < Len(uf_radar.fields)
       THEN uf_field_num' = uf_field_num + 1 /\ uf_pc' = "field_header"
       ELSE uf_field_num' = uf_field_num /\ uf_pc' = "record_end"
    /\ UNCHANGED <<uf_radar, uf_ray>>
    /\ UNCHANGED <<readVars, sdVars>>

\* file_id.write(struct.pack('>I', record_size)), after the last field;
\* then the next ray, or the end of the with block
UfWriteRecordEnd ==
    /\ uf_pc = "record_end"
    /\ uf_file' = Append(uf_file,
            Write("record_end", uf_tell, code_size("I"),
                  [value |-> 2 * get_ray_size(uf_radar)]))
    /\ uf_tell' = uf_tell + code_size("I")
    /\ IF uf_ray + 1 < uf_radar.nrays
       THEN uf_ray' = uf_ray + 1 /\ uf_pc' = "record_size"
       ELSE uf_ray' = uf_ray /\ uf_pc' = "done"
    /\ UNCHANGED <<uf_radar, uf_field_num>>
    /\ UNCHANGED <<readVars, sdVars>>

NextUF ==
    \/ UfWriteRecordSize \/ UfWriteMandatoryHeader \/ UfMandatoryHeaderError
    \/ UfWriteOptionalHeader \/ UfWriteDataHeader \/ UfWriteFieldHeader
    \/ UfWriteData \/ UfWriteRecordEnd

-----------------------------------------------------------------------------
(* The specifications.                                                     *)

Init == InitRead /\ IdleSD /\ IdleUF
Next == NextRead
Spec == Init /\ [][Next]_vars

InitSweepData == IdleRead /\ InitSD /\ IdleUF
NextSweepData == NextSD
SpecSweepData == InitSweepData /\ [][NextSweepData]_vars

InitWriteUF == IdleRead /\ IdleSD /\ InitUF
NextWriteUF == NextUF
SpecUF == InitWriteUF /\ [][NextWriteUF]_vars

-----------------------------------------------------------------------------
(* Claims about read_odim_h5 (specification Spec).                         *)

\* the rays of sweep d, as offsets within the sweep
RaysOf(d) == 0..where(d).nrays - 1

\* both per-ray samples of a pair are in the sweep's how group
HasAzimuthSamples(d) == how_has(d, "startazA") /\ how_has(d, "stopazA")
HasTimeSamples(d)    == how_has(d, "startazT") /\ how_has(d, "stopazT")

\* the range start or the gate spacing of some sweep differs from the first's
GeometryDiffers ==
    \E d \in datasets :
        where(d).rstart # where(1).rstart \/ where(d).rscale # where(1).rscale

\* a data group of the first sweep whose quantity maps to a field name is
\* absent from some sweep
MappedGroupAbsent ==
    \E key \in where(1).groups :
        /\ get_field_name(hfile.quantity[key]) # "None"
        /\ \E d \in datasets : key \notin where(d).groups

Tiles(start, end, total) ==
    /\ Len(start) = nsweeps /\ Len(end) = nsweeps
    /\ start[1] = 0
    /\ \A i \in 2..nsweeps : start[i] = end[i - 1] + 1
    /\ \A i \in 1..nsweeps : end[i] - start[i] + 1 = where(i).nrays
    /\ end[nsweeps] = total - 1

\* C1: for per-sweep ray counts n_1..n_k the sweep_start_ray_index and
\* sweep_end_ray_index computed, and those of the Radar returned, satisfy
\* start[0] = 0, start[i] = end[i-1] + 1, end[i] - start[i] + 1 = n_i and
\* end[k-1] = total_rays - 1: the inclusive ranges tile [0, total_rays).
C1_SweepRangesTile ==
    /\ Len(ssri) > 0 => Tiles(ssri, seri, total_rays)
    /\ radar.built =>
          /\ Tiles(radar.sweep_start_ray_index, radar.sweep_end_ray_index, radar.nrays)
          /\ radar.nrays = SumSeq([d \in datasets |-> where(d).nrays])

\* C1 witness: a Radar was returned for two or more sweeps of different ray
\* counts, the first of more than one ray.
C1_Witness ==
    /\ radar.built
    /\ nsweeps >= 2
    /\ where(1).nrays > 1
    /\ where(2).nrays # where(1).nrays

\* C2: every azimuth of a returned Radar lies in [0, 360) degrees, that is in
\* [0, 720) half degrees, whether it is the circular mean of startazA and
\* stopazA or 1 degree per ray from a1gate.
C2_AzimuthInRange ==
    radar.built =>
        \A r \in DOMAIN radar.azimuth : 0 <= radar.azimuth[r] /\ radar.azimuth[r] < 720

\* C3: a PVOL volume of consistent geometry and complete data groups decodes
\* successfully whatever mix of per-ray samples its sweeps carry, and each
\* sweep's rays come from that sweep's own source: its elangles, startazA and
\* stopazA, startazT and stopazT samples when it has them, the fixed angle,
\* a1gate spacing and start/end time interpolation when it has not.
C3_StrategyPerSweep ==
    (Ended /\ hfile.object = "PVOL" /\ ~GeometryDiffers /\ ~MappedGroupAbsent) =>
        /\ pc = "returned"
        /\ \A d \in datasets : \A k \in RaysOf(d) :
              LET r == radar.sweep_start_ray_index[d] + k
              IN  /\ radar.elevation[r] =
                        IF how_has(d, "elangles") THEN how_elangles(d)[k + 1]
                        ELSE where(d).elangle
                  /\ radar.azimuth[r] =
                        IF HasAzimuthSamples(d) THEN sweep_az_mean(d)[k + 1]
                        ELSE sweep_az_a1gate(d, where(d).nrays)[k + 1]
                  /\ radar.time.data[r] + radar.time.units =
                        IF HasTimeSamples(d)
                        THEN how_startazT(d)[k + 1] + how_stopazT(d)[k + 1]
                        ELSE store_int32(where(d).tstart,
                                         linspace(where(d).tdelta, where(d).nrays)[k + 1])

\* C4: in a returned volume none of whose sweeps has per-ray time samples,
\* ray k (0-based) of a sweep of n > 1 rays starting at S and lasting E - S
\* seconds is stored at offset (S - epoch) + k*(E - S)/(n - 1) seconds,
\* fractions included, epoch being the earliest ray time of the volume (the
\* earliest sweep start).  The stored offset t is in half seconds, so the
\* equation reads t*(n - 1) = 2*((S - epoch)*(n - 1) + k*(E - S)).
C4_TimeInterpolatedExactly ==
    (radar.built /\ \A d \in datasets : ~HasTimeSamples(d)) =>
        LET epoch == Min({where(d).tstart : d \in datasets})
        IN  \A d \in datasets : \A k \in RaysOf(d) :
                LET n == where(d).nrays
                    t == radar.time.data[radar.sweep_start_ray_index[d] + k]
                IN  n > 1 =>
                      t * (n - 1) =
                        2 * ((where(d).tstart - epoch) * (n - 1) + k * where(d).tdelta)

C8_HandleReleased == Ended => ~hfile_open

\* C10: when the range start or the gate spacing of some sweep differs from
\* the first sweep's, no Radar is returned and nothing after the range check
\* runs; the call ends with the range ValueError unless an earlier step
\* (the object kind, the elevation samples) had already raised.  When both
\* are the same in every sweep the range check raises nothing.
C10_GeometryChecked ==
    /\ GeometryDiffers =>
          /\ ~radar.built
          /\ pc \notin {"azimuth", "time", "fields", "return", "returned"}
          /\ Ended =>
                /\ pc = "raised"
                /\ err_at \in {"open", "elevation", "range"}
                /\ err_at = "range" =>
                      err \in {"ValueError: range start changes between sweeps",
                               "ValueError: range scale changes between sweeps"}
    /\ ~GeometryDiffers => ~(pc = "raised" /\ err_at = "range")

\* C10 witness: the range check raised on a volume whose sweeps agree on the
\* range start and differ in gate spacing (250 m against 300 m).
C10_Witness ==
    /\ pc = "raised" /\ err_at = "range"
    /\ \A d \in datasets : where(d).rstart = where(1).rstart
    /\ \E d \in datasets : where(d).rscale = 300 /\ where(1).rscale = 250

-----------------------------------------------------------------------------
(* Claims about _get_odim_h5_sweep_data (specification SpecSweepData).     *)

\* C9: of the array returned, a sample equal to the declared nodata value is
\* masked whatever gain and offset are, a sample equal to the declared
\* undetect value is masked, and every other sample is unmasked with value
\* raw*gain + offset; an absent sentinel masks nothing, an absent gain is 1
\* and an absent offset 0.  The second decoding of the same group returns
\* what the first returned.
C9_SweepDataDecoded ==
    sd_pc = "done" =>
        /\ DOMAIN sd_out.data = DOMAIN group.data
        /\ DOMAIN sd_out.mask = DOMAIN group.data
        /\ \A x \in DOMAIN group.data :
              LET raw == group.data[x]
                  has(a) == a \in group.what.attrs
                  sentinel == \/ has("nodata") /\ raw = group.what.nodata
                              \/ has("undetect") /\ raw = group.what.undetect
                  gain == IF has("gain") THEN group.what.gain ELSE 1
                  offset == IF has("offset") THEN group.what.offset ELSE 0
              IN  IF sentinel THEN sd_out.mask[x]
                  ELSE ~sd_out.mask[x] /\ sd_out.data[x] = raw * gain + offset
        /\ sd_run = 2 => sd_out = sd_first

\* C9 witness: the second decoding has returned for a group that declares
\* both sentinels, a gain of 2 and an offset of -30, and holds a nodata
\* sample and an ordinary one.
C9_Witness ==
    /\ sd_pc = "done" /\ sd_run = 2
    /\ group.what.attrs = {"nodata", "undetect", "gain", "offset"}
    /\ group.what.gain = 2 /\ group.what.offset = -30 /\ group.what.undetect = 0
    /\ \E x \in DOMAIN group.data : group.data[x] = 255 /\ sd_out.mask[x]
    /\ \E x \in DOMAIN group.data : group.data[x] = 7 /\ sd_out.data[x] = -16

-----------------------------------------------------------------------------
(* Claims about write_uf (specification SpecUF).                           *)

\* the writes of kind k made for ray r
WritesOf(k, r) == {j \in DOMAIN uf_file : uf_file[j].kind = k /\ uf_file[j].ray = r}

\* the 1-based 16-bit word of ray r's record at which write j starts; word 1
\* is the first word of the mandatory header
WordPosition(j, r) ==
    LET mh == CHOOSE i \in WritesOf("mandatory_header", r) : TRUE
    IN  (uf_file[j].at - uf_file[mh].at) \div 2 + 1

\* C5: in every ray record the leading and the trailing record-length words
\* hold the same value, the value is that of the first record, and it is the
\* number of bytes written between the two words.
C5_RecordLengthCountsBytes ==
    \A j \in DOMAIN uf_file :
        uf_file[j].kind = "record_end" =>
            \E i \in WritesOf("record_size", uf_file[j].ray) :
                /\ uf_file[i].vals.value = uf_file[j].vals.value
                /\ uf_file[i].vals.value = uf_file[1].vals.value
                /\ uf_file[j].vals.value =
                      uf_file[j].at - (uf_file[i].at + uf_file[i].nbytes)

\* C6: in every ray record of a Radar of F >= 1 fields and G >= 1 gates, the
\* mandatory, optional and data headers take 45, 14 and 3 words; the field
\* header positions of the directory increase strictly; the i-th (0-based)
\* is 45 + 14 + 3 + 2F + i*(25 + G) + 1 and is the word at which the i-th
\* field header is written; OptionalHeaderPosition and DataHeaderPosition
\* are the words at which those headers are written.
C6_PositionsMatchLayout ==
    \A r \in 0..uf_ray :
        LET F == Len(uf_radar.fields)
            G == uf_radar.ngates
            pos(i) == LET e == CHOOSE j \in WritesOf("field_position", r) :
                                   uf_file[j].vals.idx = i
                      IN  uf_file[e].vals.FieldHeaderPosition
        IN  /\ \A j \in WritesOf("mandatory_header", r) : uf_file[j].nbytes = 2 * 45
            /\ \A j \in WritesOf("optional_header", r) :
                  /\ uf_file[j].nbytes = 2 * 14
                  /\ \A m \in WritesOf("mandatory_header", r) :
                        uf_file[m].vals.OptionalHeaderPosition = WordPosition(j, r)
            /\ \A j \in WritesOf("data_header", r) :
                  /\ uf_file[j].nbytes = 2 * 3
                  /\ \A m \in WritesOf("mandatory_header", r) :
                        uf_file[m].vals.DataHeaderPosition = WordPosition(j, r)
            /\ WritesOf("field_position", r) # {} =>
                  /\ Cardinality(WritesOf("field_position", r)) = F
                  /\ \A i \in 0..F - 1 :
                        pos(i) = 45 + 14 + 3 + 2 * F + i * (25 + G) + 1
                  /\ \A i \in 1..F - 1 : pos(i - 1) < pos(i)
            /\ \A j \in WritesOf("field_header", r) :
                  pos(uf_file[j].vals.field_num) = WordPosition(j, r)

\* C6 witness: every record of a Radar of 3 fields, 100 gates and two or
\* more rays has been written.
C6_Witness ==
    /\ uf_pc = "done"
    /\ Len(uf_radar.fields) = 3
    /\ uf_radar.ngates = 100
    /\ uf_radar.nrays >= 2
    /\ Cardinality({j \in DOMAIN uf_file : uf_file[j].kind = "field_header"})
          = 3 * uf_radar.nrays

\* C11: for every ray r of a Radar whose sweep ranges tile the rays, the
\* SweepNumber written in the ray's mandatory header is 1 + s, s the 0-based
\* index of the one sweep with sweep_start_ray_index[s] <= r <=
\* sweep_end_ray_index[s]; so the first and the last ray of a sweep carry
\* the same SweepNumber and no SweepNumber is greater than nsweeps.
C11_SweepNumberOfRay ==
    \A j \in DOMAIN uf_file :
        uf_file[j].kind = "mandatory_header" =>
            LET r == uf_file[j].ray
                s == CHOOSE i \in 1..uf_radar.nsweeps :
                         /\ uf_radar.sweep_start_ray_index[i] <= r
                         /\ r <= uf_radar.sweep_end_ray_index[i]
            IN  /\ uf_file[j].vals.SweepNumber = s
                /\ uf_file[j].vals.SweepNumber <= uf_radar.nsweeps
                /\ \A k \in DOMAIN uf_file :
                      /\ uf_file[k].kind = "mandatory_header"
                      /\ uf_file[k].ray = uf_radar.sweep_start_ray_index[s]
                      => uf_file[k].vals.SweepNumber = uf_file[j].vals.SweepNumber

\* C12: for every field of a ray record, the DataPosition of the field's
\* header is the 1-based word of the record at which the field's samples
\* begin, the word right after its 25-word field header; with two or more
\* fields the DataPosition values increase strictly in field order.
C12_DataPositionLocatesData ==
    \A j \in DOMAIN uf_file :
        uf_file[j].kind = "data" =>
            \A h \in WritesOf("field_header", uf_file[j].ray) :
                /\ uf_file[h].vals.field_num = uf_file[j].vals.field_num
                   => /\ uf_file[h].vals.DataPosition
                            = WordPosition(j, uf_file[j].ray)
                      /\ WordPosition(j, uf_file[j].ray)
                            = WordPosition(h, uf_file[j].ray) + 25
                /\ uf_file[h].vals.field_num < uf_file[j].vals.field_num
                   => \A g \in WritesOf("field_header", uf_file[j].ray) :
                         uf_file[g].vals.field_num = uf_file[j].vals.field_num
                         => uf_file[h].vals.DataPosition
                               < uf_file[g].vals.DataPosition

\* C13: in the directory of a ray record no two entries carry the same
\* two-letter tag, and the i-th entry's tag is that of the field whose
\* header and data are written i-th.
C13_TagsDistinct ==
    \A r \in 0..uf_ray :
        /\ \A i, j \in WritesOf("field_position", r) :
              i # j => uf_file[i].vals.DataType # uf_file[j].vals.DataType
        /\ \A e \in WritesOf("field_position", r) :
              \A h \in WritesOf("field_header", r) \cup WritesOf("data", r) :
                  uf_file[h].vals.field_num = uf_file[e].vals.idx
                  => uf_file[e].vals.DataType = tag(uf_file[h].vals.field)

=============================================================================
